---- MODULE Spec2Model ----
(***************************************************************************)
(* Rule-triggered action execution engine: executeActionSafely             *)
(* (src/lib/actions.ts) running the action executor inside withRetry,      *)
(* inside a per-action CircuitBreaker (src/lib/errorhandling.ts), with     *)
(* logError and addToDeadLetterQueue on the terminal-failure path.         *)
(*                                                                         *)
(* Calls are asynchronous: each running call occupies a slot, and one      *)
(* action of the model is the code a call runs between two awaits.  Time   *)
(* is the value of Date.now() in milliseconds.                             *)
(***************************************************************************)
EXTENDS Integers, Sequences, FiniteSets, TLC

(***************************************************************************)
(* Bounds of the model                                                     *)
(***************************************************************************)
\* number of executeActionSafely calls that can be running at the same time
MaxCalls == 2
\* number of executeActionSafely calls made in one behaviour of Spec
MaxStarted == 1
\* number of executeActionSafely calls made in one behaviour of SpecSeq
MaxSeqCalls == 7
\* number of executeActionSafely calls made in one behaviour of SpecOverlap
MaxOverlapCalls == 7
\* the clock stops advancing here
MaxNow == 62000
\* number of rows the dead_letter_queue table can hold in the model
MaxDLQ == 1
\* number of trigger dispatches made in one behaviour of SpecDispatch
MaxDispatches == 2
\* number of rows added through the test endpoint in one behaviour
MaxEntries == 3
\* number of processDLQItem invocations in one behaviour
MaxProcs == 3
\* number of processDLQBatch runs in one behaviour
MaxBatches == 3
\* number of processDLQBatch runs in one behaviour of SpecDLQ
MaxQueueBatches == 1
\* number of retry requests before the batch run in one behaviour of SpecDLQ
MaxSweepRetries == 1
\* number of updates of a rule in one behaviour
MaxPuts == 1
\* number of times the model lets time pass between requests in one behaviour
MaxElapses == 2

Slots == 1..MaxCalls

(***************************************************************************)
(* Strings                                                                 *)
(***************************************************************************)
\* String.prototype.includes
Includes(s, sub) ==
    \E i \in 1..(Len(s) - Len(sub) + 1) : SubSeq(s, i, i + Len(sub) - 1) = sub

\* String.prototype.endsWith
EndsWith(s, suf) ==
    /\ Len(s) >= Len(suf)
    /\ SubSeq(s, Len(s) - Len(suf) + 1, Len(s)) = suf

RECURSIVE Pow(_, _)
\* Math.pow on non-negative integers
Pow(b, e) == IF e = 0 THEN 1 ELSE b * Pow(b, e - 1)

(***************************************************************************)
(* Program constants                                                       *)
(***************************************************************************)
\* CircuitBreaker constructor defaults
threshold == 5
resetTimeoutMs == 60000
\* options executeActionSafely passes to withRetry
retryDelayMs == 1000
backoffMultiplier == 2
\* the default of options.maxRetries in executeActionSafely
DefaultMaxRetries == 3
\* options.maxRetries of the executeActionSafely call of processDLQItem
RetryMaxRetries == 1
\* const maxRetries = 3 in the catch block of processDLQItem
ItemMaxRetries == 3
\* the wait of the 'timeout' failure type of the test_failure action
TimeoutWaitMs == 10000
\* lastProcessedAt: null
NullTime == 0 - 1

\* ids of the entries of mergedActions that the model uses
MergedActionIds == {"send_email", "update_record", "test_failure"}

\* an action id that is in no action list
UnknownActionId == "no_such_action"

\* getActionById(actionId) finds an action
getActionById(actionId) == actionId \in MergedActionIds

(***************************************************************************)
(* Inputs: parameter bags, rules and the options of a call                 *)
(***************************************************************************)
P_none == [to |-> "guest"]
P_succeed == [shouldFail |-> FALSE]
P_fail == [shouldFail |-> TRUE]
P_notFound == [failureMessage |-> "Booking not found"]
P_invalid == [failureMessage |-> "Invalid parameters"]
P_intermittent == [failureType |-> "intermittent"]
P_timeout == [failureType |-> "timeout"]
\* the actionParams of the rule createFailingRule makes
P_testFail ==
    [shouldFail |-> TRUE, failureMessage |-> "Test failure for DLQ testing",
     failureType |-> "error"]

\* the (actionId, parameters) pairs a call is made with
CallInputs ==
    {<<"send_email", P_none>>, <<"update_record", P_none>>,
     <<UnknownActionId, P_none>>,
     <<"test_failure", P_succeed>>, <<"test_failure", P_fail>>,
     <<"test_failure", P_notFound>>, <<"test_failure", P_invalid>>,
     <<"test_failure", P_intermittent>>, <<"test_failure", P_timeout>>}

\* the rule argument of a call made without a rule
NoRule ==
    [id |-> "", name |-> "", triggerId |-> "", actionId |-> "",
     actionParams |-> <<>>]

Rule1 ==
    [id |-> "rule-1", name |-> "Checkin failure drill",
     triggerId |-> "guest_checkin", actionId |-> "test_failure",
     actionParams |-> P_fail]

SampleRules == {Rule1}

\* ids of the entries of the trigger list that the model uses
TriggerIds ==
    {"guest_checkin", "booking_confirmed", "guest_checkout", "cleaning_completed"}

\* a trigger id that is in no trigger list
UnknownTriggerId == "no_such_trigger"

\* getTriggerById(triggerId) finds a trigger
getTriggerById(triggerId) == triggerId \in TriggerIds

\* a row of the rules table
StoredRule(id, triggerId, actionId, actionParams, schedule, delay, conditions, enabled) ==
    [id |-> id, name |-> "Rule " \o id, triggerId |-> triggerId,
     actionId |-> actionId, actionParams |-> actionParams,
     schedule |-> schedule, delay |-> delay, conditions |-> conditions,
     enabled |-> enabled]

Cond(field, operator, value) ==
    [field |-> field, operator |-> operator, value |-> value]

\* the rules table as the select of the trigger handler returns its rows
RulesTable ==
    << StoredRule("r-delayed-0", "guest_checkin", "send_email", P_none,
                  "delayed", 0, <<>>, TRUE),
       StoredRule("r-fail", "guest_checkin", "test_failure", P_fail,
                  "immediate", 0, <<>>, TRUE),
       StoredRule("r-ok", "guest_checkin", "send_email", P_none,
                  "immediate", 0, <<>>, TRUE),
       StoredRule("r-disabled", "guest_checkin", "send_email", P_none,
                  "immediate", 0, <<>>, FALSE),
       StoredRule("r-test", "cleaning_completed", "test_failure", P_testFail,
                  "immediate", 0, <<>>, TRUE),
       StoredRule("r-delayed-1", "guest_checkout", "send_email", P_none,
                  "delayed", 1, <<>>, TRUE),
       StoredRule("r-both", "booking_confirmed", "send_email", P_none,
                  "immediate", 0,
                  <<Cond("amount", "greater_than", 100),
                    Cond("vip", "equals", TRUE)>>, TRUE),
       StoredRule("r-less", "booking_confirmed", "send_email", P_none,
                  "immediate", 0, <<Cond("amount", "less_than", 100)>>, TRUE),
       StoredRule("r-not", "booking_confirmed", "send_email", P_none,
                  "immediate", 0, <<Cond("vip", "not_equals", TRUE)>>, TRUE),
       StoredRule("r-contains", "booking_confirmed", "send_email", P_none,
                  "immediate", 0, <<Cond("name", "contains", "vip")>>, TRUE),
       StoredRule("r-starts", "booking_confirmed", "send_email", P_none,
                  "immediate", 0, <<Cond("name", "starts_with", "vip")>>, TRUE),
       StoredRule("r-ends", "booking_confirmed", "send_email", P_none,
                  "immediate", 0, <<Cond("name", "ends_with", "vip")>>, TRUE) >>

\* the (triggerId, parameters) bodies of the requests to the trigger handler
TriggerInputs ==
    {<<"guest_checkin", [guestId |-> "g-1"]>>,
     <<"guest_checkout", [guestId |-> "g-1"]>>,
     <<UnknownTriggerId, [guestId |-> "g-1"]>>,
     <<"", [guestId |-> "g-1"]>>}
    \cup {<<"booking_confirmed", [amount |-> a, vip |-> v, name |-> n]>> :
             a \in {50, 150}, v \in BOOLEAN, n \in {"guest-vip", "vip-guest"}}

\* the (ruleId, actionId, actionParams) bodies of the requests to the test
\* endpoint that adds a row to the dead letter queue; the last one is the
\* row the endpoint makes of an empty body
EntryInputs ==
    {<<"r-fail", "test_failure", P_intermittent>>,
     <<"e5dc25d2-7239-4e8d-9f08-0568410e0b5c", "test_action", <<>>>>}

\* the (limit, olderThanMinutes, maxRetryAttempts, specificIds) arguments of
\* processDLQBatch; an empty specificIds is no filter
BatchInputs ==
    {<<1, 0, 3, {}>>, <<2, 0, 1, {}>>, <<1, 1, 3, {}>>, <<2, 1, 1, {}>>,
     <<2, 0, 3, {"uuid-0-2"}>>}

\* the arguments of the sweeps of the queue: the options left at their
\* defaults but for olderThanMinutes, which the request to the API sets
SweepInputs == {<<1, 0, 3, {}>>, <<10, 0, 3, {}>>}

\* the body of a request to the test endpoint for a row whose action fails
\* on every attempt
FailingEntry == <<"r-fail", "test_failure", P_fail>>

\* the actionParams a PUT of a rule stores
PutInputs == {P_succeed}

\* the times the model lets pass between requests
ElapseSteps == {1, 60000}

\* values of options.maxRetries: the DLQ processor's and the default
MaxRetriesOptions == {1, 3}

\* the calls of SpecSeq and SpecOverlap: one action, so one breaker, with an executor
\* that succeeds, fails with a retryable error, or fails for good
BreakerInputs ==
    {<<"test_failure", P_succeed>>, <<"test_failure", P_fail>>,
     <<"test_failure", P_notFound>>}

BreakerMaxRetries == {1}

\* what an insert into the durable store does: it writes the row, resolves
\* with an error and writes nothing, or throws
StoreModes == {"up", "error", "throw"}

\* the result of a call that has not returned one
NoResult == [success |-> FALSE, message |-> "", mock |-> FALSE]

(***************************************************************************)
(* State                                                                   *)
(***************************************************************************)
VARIABLES
    now,              \* Date.now()
    calls,            \* slot -> the executeActionSafely call running in it
    circuitBreakers,  \* the registry: breaker name -> breaker fields
    dlq,              \* rows of the dead_letter_queue table, in insert order
    store,            \* what an insert into the durable store does
    started,          \* number of calls made so far
    seqFail,          \* actionId -> failed calls in a row, none overlapping
    overlapped,       \* slots whose call ran while another call of the same
                      \* action was running
    rules,            \* rows of the rules table
    dispatch,         \* the request the trigger handler is serving
    timers,           \* the pending setTimeout callbacks of delayed rules
    fired,            \* the delayed callbacks that have run, in order
    dispatches,       \* number of requests to the trigger handler so far
    procs,            \* slot -> the processDLQItem invocation that uses it
    batch,            \* slot -> the processDLQBatch run that uses it
    used              \* numbers of requests made so far

\* the state of the trigger handler
dispatchVars == <<rules, dispatch, timers, fired, dispatches>>

\* the state of the dead letter queue processor
dlqVars == <<procs, batch, used>>

vars == <<now, calls, circuitBreakers, dlq, store, started, seqFail, overlapped,
          dispatchVars, dlqVars>>

(***************************************************************************)
(* The action executor                                                     *)
(***************************************************************************)
\* parameters[key], or dflt when the bag has no such key
Param(parameters, key, dflt) ==
    IF key \in DOMAIN parameters THEN parameters[key] ELSE dflt

\* parameters.shouldFail !== false
ShouldFail(parameters) == Param(parameters, "shouldFail", TRUE) # FALSE

\* parameters.failureMessage || 'Intentional test failure'
FailureMessage(parameters) ==
    IF Param(parameters, "failureMessage", "") = ""
    THEN "Intentional test failure"
    ELSE parameters["failureMessage"]

\* parameters.failureType || 'error'
FailureType(parameters) ==
    IF Param(parameters, "failureType", "") = ""
    THEN "error"
    ELSE parameters["failureType"]

Succeeds(message) ==
    [ok |-> TRUE, wait |-> 0, msg |-> "",
     result |-> [success |-> TRUE, message |-> message, mock |-> TRUE]]

Throws(message, wait) ==
    [ok |-> FALSE, wait |-> wait, msg |-> message, result |-> NoResult]

\* executeAction(actionId, parameters): what one invocation of the executor
\* does.  random is the outcome of Math.random() < 0.75; wait is the time
\* the executor sleeps before it throws.
executeAction(actionId, parameters, random) ==
    IF ~getActionById(actionId)
    THEN Throws("Action with ID " \o actionId \o " not found", 0)
    ELSE IF actionId = "test_failure"
    THEN IF ShouldFail(parameters)
         THEN CASE FailureType(parameters) = "timeout" ->
                     Throws("Timeout: " \o FailureMessage(parameters),
                            TimeoutWaitMs)
                [] FailureType(parameters) = "intermittent" ->
                     IF random
                     THEN Throws("Intermittent failure: "
                                 \o FailureMessage(parameters), 0)
                     ELSE Succeeds("Test action completed successfully")
                [] OTHER -> Throws(FailureMessage(parameters), 0)
         ELSE Succeeds("Test action completed successfully")
    ELSE CASE actionId = "send_email" ->
                Succeeds("Email would be sent to "
                         \o Param(parameters, "to", "undefined"))
           [] OTHER ->
                Throws("Execution for action " \o actionId
                       \o " not implemented", 0)

(***************************************************************************)
(* Errors and identifiers                                                  *)
(***************************************************************************)
\* the message the ActionError constructor builds
ActionErrorMessage(actionId, message) ==
    "Action error (" \o actionId \o "): " \o message

\* the n-th uuidv4() of call number callNo: distinct for distinct (callNo, n)
Uuid(callNo, n) == "uuid-" \o ToString(callNo) \o "-" \o ToString(n)

\* the suffix executeActionSafely appends to the message of the error
ErrorIdSuffix(errorId) == " (Error ID: " \o errorId \o ")"

\* retryCondition that forgets the invalid-parameters signal
retryConditionNotFoundOnly(message) ==
    IF Includes(message, "not found") THEN FALSE ELSE TRUE

\* retryCondition that executeActionSafely passes to withRetry
retryCondition(message) ==
    IF Includes(message, "Invalid parameters") \/ Includes(message, "not found")
    THEN FALSE
    ELSE TRUE

\* a delay that grows by retryDelayMs with each attempt instead of doubling
RetryDelayLinear(attempt) == retryDelayMs * (attempt + 1)

\* the delay withRetry waits after the failure of attempt number attempt
RetryDelay(attempt) == retryDelayMs * Pow(backoffMultiplier, attempt)

\* the loop condition of withRetry
LoopContinues(attempt, maxRetries) == attempt < maxRetries + 1

\* the test with > in the place of >=
ShouldRethrowLate(attempt, maxRetries, message) ==
    attempt > maxRetries \/ ~retryCondition(message)

\* the test in the catch block of withRetry: the error is thrown on
ShouldRethrow(attempt, maxRetries, message) ==
    attempt >= maxRetries \/ ~retryCondition(message)

\* the test left out: every failure goes to the dead letter queue
HasRuleAlways(rule) == rule = rule

\* if (rule) in the catch block of executeActionSafely
HasRule(rule) == rule # NoRule

(***************************************************************************)
(* The circuit breaker                                                     *)
(***************************************************************************)
BreakerName(actionId) == "action:" \o actionId

\* new CircuitBreaker(name)
NewCircuitBreaker == [failures |-> 0, lastFailureTime |-> 0, state |-> "CLOSED"]

\* getCircuitBreaker(name): the registry after the lookup, which creates the
\* breaker when it is missing
getCircuitBreaker(name) ==
    IF name \in DOMAIN circuitBreakers
    THEN circuitBreakers
    ELSE [n \in DOMAIN circuitBreakers \cup {name} |->
             IF n = name THEN NewCircuitBreaker ELSE circuitBreakers[n]]

\* the check with its throw inside the try block: the rejection is counted
\* as a failure of the operation
CircuitBreakerCheckCounting(cb) ==
    IF cb.state = "OPEN"
    THEN IF now - cb.lastFailureTime > resetTimeoutMs
         THEN [admitted |-> TRUE, cb |-> [cb EXCEPT !.state = "HALF_OPEN"]]
         ELSE [admitted |-> FALSE,
               cb |-> [cb EXCEPT !.failures = @ + 1, !.lastFailureTime = now]]
    ELSE [admitted |-> TRUE, cb |-> cb]

\* the check at the head of CircuitBreaker.execute: whether the call goes on
\* to the operation, and the breaker after the check
CircuitBreakerCheck(cb) ==
    IF cb.state = "OPEN"
    THEN IF now - cb.lastFailureTime > resetTimeoutMs
         THEN [admitted |-> TRUE, cb |-> [cb EXCEPT !.state = "HALF_OPEN"]]
         ELSE [admitted |-> FALSE, cb |-> cb]
    ELSE [admitted |-> TRUE, cb |-> cb]

\* a reset that closes the breaker and keeps the count of failures
resetStateOnly(cb) == [cb EXCEPT !.state = "CLOSED"]

\* CircuitBreaker.reset
reset(cb) == [cb EXCEPT !.failures = 0, !.state = "CLOSED"]

\* a success branch that resets the breaker in every state
CircuitBreakerSuccessResets(cb) == reset(cb)

\* the success branch of CircuitBreaker.execute
CircuitBreakerSuccess(cb) == IF cb.state = "HALF_OPEN" THEN reset(cb) ELSE cb

\* the test with > in the place of >=
HitThresholdLate(failures) == failures > threshold

\* the test of the catch branch of CircuitBreaker.execute, on the count
\* the branch has just incremented
HitThreshold(failures) == failures >= threshold

\* the catch branch of CircuitBreaker.execute
CircuitBreakerFailure(cb) ==
    [failures |-> cb.failures + 1,
     lastFailureTime |-> now,
     state |-> IF HitThreshold(cb.failures + 1) THEN "OPEN" ELSE cb.state]

(***************************************************************************)
(* Calls                                                                   *)
(***************************************************************************)
IdleCall ==
    [pc |-> "idle", callNo |-> 0, actionId |-> "", parameters |-> <<>>,
     rule |-> NoRule, maxRetries |-> 0, context |-> <<>>,
     attempt |-> 0, execCount |-> 0, succAt |-> 0,
     execMsg |-> "", execResult |-> NoResult,
     onRetryCount |-> 0, waits |-> <<>>, wakeAt |-> 0,
     errName |-> "", errMsg |-> "", errorId |-> "", logErrorId |-> "",
     uuids |-> 0, logged |-> 0, dlqAdded |-> 0,
     logFailed |-> "", dlqFailed |-> "",
     rejected |-> FALSE, trial |-> FALSE, duringTrial |-> FALSE,
     priorFails |-> 0, withinReset |-> FALSE,
     outcome |-> "", result |-> NoResult]

\* the call is inside CircuitBreaker.execute, running the operation
InOperation(k) == k.pc \in {"execFailed", "execWait", "logSuccess", "backoff"}

\* the call has started and has not yet returned or thrown
Running(k) == k.pc \notin {"idle", "done"}

\* the trigger handler when it serves no request
IdleDispatch ==
    [pc |-> "idle", no |-> 0, triggerId |-> "", parameters |-> <<>>,
     matchingRules |-> <<>>, i |-> 0, executedRules |-> <<>>,
     status |-> 0, slot |-> 0,
     evaluated |-> {}, dispatched |-> {}, failed |-> {}]

\* a slot in which no processDLQItem runs
IdleProc ==
    [pc |-> "idle", owner |-> "", item |-> <<>>, rule |-> NoRule, M |-> 0,
     status |-> "", retryAttempts |-> 0, failedAction |-> FALSE,
     success |-> FALSE]

\* no processDLQBatch runs
IdleBatch ==
    [pc |-> "idle", limit |-> 0, olderThanMinutes |-> 0, maxRetryAttempts |-> 0,
     specificIds |-> {}, items |-> <<>>, i |-> 0,
     table |-> <<>>, at |-> 0, processed |-> <<>>]

Init ==
    /\ now = 0
    /\ calls = [c \in Slots |-> IdleCall]
    /\ circuitBreakers = <<>>
    /\ dlq = <<>>
    /\ store = "up"
    /\ started = 0
    /\ seqFail = [a \in MergedActionIds |-> 0]
    /\ overlapped = {}
    /\ rules = RulesTable
    /\ dispatch = IdleDispatch
    /\ timers = {}
    /\ fired = <<>>
    /\ dispatches = 0
    /\ procs = [c \in Slots |-> IdleProc]
    /\ batch = [c \in Slots |-> IdleBatch]
    /\ used = [entries |-> 0, procs |-> 0, batches |-> 0, puts |-> 0,
               elapses |-> 0]

(***************************************************************************)
(* Steps of executeActionSafely                                            *)
(***************************************************************************)
\* one pass of the loop body of withRetry up to the await of the operation:
\* the operation starts and invokes the executor
InvokeOperation(k, random) ==
    LET o == executeAction(k.actionId, k.parameters, random)
    IN  [k EXCEPT !.execCount = @ + 1,
                  !.execMsg = o.msg,
                  !.execResult = o.result,
                  !.succAt = IF o.ok /\ @ = 0 THEN k.execCount + 1 ELSE @,
                  !.uuids = IF o.ok THEN @ + 1 ELSE @,
                  !.wakeAt = IF o.wait > 0 THEN now + o.wait ELSE @,
                  !.pc = IF o.wait > 0 THEN "execWait"
                         ELSE IF o.ok THEN "logSuccess" ELSE "execFailed"]

\* the catch block of executeActionSafely up to the await inside logError:
\* it builds the ActionError and logError draws the error id
CatchBlock(k, message) ==
    [k EXCEPT !.pc = "logError",
              !.errName = "ActionError",
              !.errMsg = ActionErrorMessage(k.actionId,
                             IF message = "" THEN "Action execution failed"
                             ELSE message),
              !.logErrorId = Uuid(k.callNo, k.uuids + 1),
              !.uuids = @ + 2]

\* the end of the catch block: the error id is appended and the error thrown
Rethrow(k) ==
    [k EXCEPT !.pc = "done",
              !.outcome = "error",
              !.errMsg = @ \o ErrorIdSuffix(k.errorId)]

\* a row that takes the action from the arguments of the call, not the rule
DLQRowOfCall(k) ==
    [id |-> Uuid(k.callNo, k.uuids + 1),
     ruleId |-> k.rule.id,
     ruleName |-> k.rule.name,
     triggerId |-> k.rule.triggerId,
     actionId |-> k.actionId,
     actionParams |-> k.parameters,
     context |-> k.context,
     error |-> k.errMsg,
     timestamp |-> now,
     retryAttempts |-> 0,
     status |-> "pending",
     lastProcessedAt |-> NullTime]

\* the row addToDeadLetterQueue inserts
DLQRow(k) ==
    [id |-> Uuid(k.callNo, k.uuids + 1),
     ruleId |-> k.rule.id,
     ruleName |-> k.rule.name,
     triggerId |-> k.rule.triggerId,
     actionId |-> k.rule.actionId,
     actionParams |-> k.rule.actionParams,
     context |-> k.context,
     error |-> k.errMsg,
     timestamp |-> now,
     retryAttempts |-> 0,
     status |-> "pending",
     lastProcessedAt |-> NullTime]

\* bookkeeping when the call in slot c ends: the count of failed calls in a
\* row of its action, counting only calls that ran alone
CallEnds(c, failed) ==
    LET a == calls[c].actionId
    IN  /\ seqFail' = [seqFail EXCEPT ![a] =
                          IF c \in overlapped THEN 0
                          ELSE IF failed THEN @ + 1 ELSE 0]
        /\ overlapped' = overlapped \ {c}

\* executeActionSafely(actionId, parameters, rule, {maxRetries}) is called:
\* the action lookup, the breaker check and the first pass of withRetry
executeActionSafely(c, actionId, parameters, rule, maxRetries) ==
    /\ calls[c].pc = "idle"
    /\ started' = started + 1
    /\ UNCHANGED <<now, dlq, store>>
    /\ LET k0 == [IdleCall EXCEPT !.callNo = started + 1,
                                  !.actionId = actionId,
                                  !.parameters = parameters,
                                  !.rule = rule,
                                  !.maxRetries = maxRetries]
       IN  IF ~getActionById(actionId)
           THEN /\ calls' = [calls EXCEPT ![c] =
                     [k0 EXCEPT !.pc = "done",
                                !.outcome = "error",
                                !.errName = "ActionError",
                                !.errMsg = ActionErrorMessage(actionId,
                                    "Action with ID " \o actionId
                                    \o " not found")]]
                /\ UNCHANGED <<circuitBreakers, seqFail, overlapped>>
           ELSE LET name == BreakerName(actionId)
                    registry == getCircuitBreaker(name)
                    check == CircuitBreakerCheck(registry[name])
                    others == {d \in Slots \ {c} :
                                 /\ Running(calls[d])
                                 /\ calls[d].actionId = actionId}
                    k1 == [k0 EXCEPT
                             !.priorFails = IF others = {} THEN seqFail[actionId]
                                            ELSE 0,
                             !.withinReset =
                                 now - registry[name].lastFailureTime
                                   <= resetTimeoutMs,
                             !.rejected = ~check.admitted,
                             !.trial = /\ check.admitted
                                       /\ registry[name].state = "OPEN",
                             !.duringTrial =
                                 /\ check.admitted
                                 /\ \E d \in others : /\ calls[d].trial
                                                      /\ InOperation(calls[d])]
                IN  /\ circuitBreakers' = [registry EXCEPT ![name] = check.cb]
                    /\ overlapped' = IF others = {} THEN overlapped \ {c}
                                     ELSE overlapped \cup others \cup {c}
                    /\ UNCHANGED seqFail
                    /\ IF check.admitted
                       THEN \E random \in BOOLEAN :
                              calls' = [calls EXCEPT ![c] =
                                           InvokeOperation(k1, random)]
                       ELSE calls' = [calls EXCEPT ![c] =
                               CatchBlock(k1, "Circuit breaker open for " \o name)]

\* the setTimeout inside the executor fires and the executor throws
executeAction_timeout(c) ==
    /\ calls[c].pc = "execWait"
    /\ now >= calls[c].wakeAt
    /\ calls' = [calls EXCEPT ![c].pc = "execFailed"]
    /\ UNCHANGED <<now, circuitBreakers, dlq, store, started, seqFail, overlapped, dispatchVars, dlqVars>>

\* the error leaves withRetry: the catch block of CircuitBreaker.execute up
\* to its await, or when the breaker does not open, up to the await in the
\* catch block of executeActionSafely
BreakerCatch(c, k) ==
    LET name == BreakerName(k.actionId)
        cb == CircuitBreakerFailure(circuitBreakers[name])
    IN  /\ circuitBreakers' = [circuitBreakers EXCEPT ![name] = cb]
        /\ calls' = [calls EXCEPT ![c] =
             IF HitThreshold(cb.failures)
             THEN [k EXCEPT !.pc = "breakerLog", !.uuids = @ + 2]
             ELSE CatchBlock(k, k.execMsg)]

\* the operation threw: the catch block of withRetry, which throws the error
\* on or calls onRetry and starts the backoff timer
withRetry_catch(c) ==
    LET k == calls[c]
    IN  /\ k.pc = "execFailed"
        /\ UNCHANGED <<now, dlq, store, started, seqFail, overlapped, dispatchVars, dlqVars>>
        /\ IF ShouldRethrow(k.attempt, k.maxRetries, k.execMsg)
           THEN BreakerCatch(c, k)
           ELSE /\ calls' = [calls EXCEPT ![c] =
                     [k EXCEPT !.pc = "backoff",
                               !.onRetryCount = @ + 1,
                               !.uuids = @ + 1,
                               !.logged = IF store = "up" THEN @ + 1 ELSE @,
                               !.waits = Append(@, RetryDelay(k.attempt)),
                               !.wakeAt = now + RetryDelay(k.attempt)]]
                /\ UNCHANGED circuitBreakers

\* the backoff timer of withRetry fires: the next pass of the loop, or past
\* the last pass the throw of lastError after the loop
withRetry_next(c) ==
    LET k == [calls[c] EXCEPT !.attempt = @ + 1]
    IN  /\ calls[c].pc = "backoff"
        /\ now >= calls[c].wakeAt
        /\ UNCHANGED <<now, dlq, store, started, seqFail, overlapped, dispatchVars, dlqVars>>
        /\ IF LoopContinues(k.attempt, k.maxRetries)
           THEN /\ \E random \in BOOLEAN :
                     calls' = [calls EXCEPT ![c] = InvokeOperation(k, random)]
                /\ UNCHANGED circuitBreakers
           ELSE BreakerCatch(c, k)

\* the operation of a withRetry that awaits the operation without returning
\* its result: the loop goes on after a success
operation_loggedNoReturn(c) ==
    LET k == [calls[c] EXCEPT !.attempt = @ + 1,
                              !.logged = IF store = "up" THEN @ + 1 ELSE @]
    IN  /\ calls[c].pc = "logSuccess"
        /\ UNCHANGED <<now, dlq, store, started, seqFail, overlapped, dispatchVars, dlqVars>>
        /\ IF LoopContinues(k.attempt, k.maxRetries)
           THEN /\ \E random \in BOOLEAN :
                     calls' = [calls EXCEPT ![c] = InvokeOperation(k, random)]
                /\ UNCHANGED circuitBreakers
           ELSE BreakerCatch(c, k)

\* the insert of the success log entry returns: the operation returns the
\* result through withRetry and the success branch of CircuitBreaker.execute,
\* or the insert throws and the operation fails
operation_logged(c) ==
    LET k == calls[c]
        name == BreakerName(k.actionId)
    IN  /\ k.pc = "logSuccess"
        /\ UNCHANGED <<now, dlq, store, started, dispatchVars, dlqVars>>
        /\ IF store = "throw"
           THEN /\ calls' = [calls EXCEPT ![c] =
                     [k EXCEPT !.pc = "execFailed", !.execMsg = "fetch failed"]]
                /\ UNCHANGED <<circuitBreakers, seqFail, overlapped>>
           ELSE /\ circuitBreakers' = [circuitBreakers EXCEPT ![name] =
                                          CircuitBreakerSuccess(@)]
                /\ calls' = [calls EXCEPT ![c] =
                     [k EXCEPT !.pc = "done",
                               !.outcome = "ok",
                               !.logged = IF store = "up" THEN @ + 1 ELSE @,
                               !.result = k.execResult]]
                /\ CallEnds(c, FALSE)

\* logError inside CircuitBreaker.execute returns: the breaker rethrows and
\* the catch block of executeActionSafely starts
CircuitBreaker_logged(c) ==
    LET k == calls[c]
    IN  /\ k.pc = "breakerLog"
        /\ calls' = [calls EXCEPT ![c] =
              CatchBlock([k EXCEPT !.logged = IF store = "up" THEN @ + 1 ELSE @],
                         k.execMsg)]
        /\ UNCHANGED <<now, circuitBreakers, dlq, store, started, seqFail, overlapped, dispatchVars, dlqVars>>

\* a logError without its try and catch: the exception of the insert leaves it
logErrorUncaught(k) ==
    [raised |-> store = "throw", errorId |-> k.logErrorId]

\* logError(error, ruleName, details) once its insert has settled: the id it
\* returns.  An insert that resolves with an error is not looked at; an
\* insert that throws is caught and the fallback id returned.
logError(k) ==
    [raised |-> FALSE,
     errorId |-> IF store = "throw"
                 THEN "failed-to-log-" \o ToString(now)
                 ELSE k.logErrorId]

\* logError in the catch block returns the error id; without a rule the
\* error is rethrown, with a rule addToDeadLetterQueue starts its insert
logError_returns(c) ==
    LET k == calls[c]
        r == logError(k)
        k1 == [k EXCEPT !.errorId = r.errorId,
                        !.logFailed = IF store = "up" THEN "" ELSE store,
                        !.logged = IF store = "up" THEN @ + 1 ELSE @]
    IN  /\ k.pc = "logError"
        /\ UNCHANGED <<now, circuitBreakers, dlq, store, started, dispatchVars, dlqVars>>
        /\ IF r.raised
           THEN /\ calls' = [calls EXCEPT ![c] =
                     [k1 EXCEPT !.pc = "done", !.outcome = "error",
                                !.errName = "Error", !.errMsg = "fetch failed",
                                !.errorId = ""]]
                /\ CallEnds(c, TRUE)
           ELSE IF HasRule(k.rule)
           THEN /\ calls' = [calls EXCEPT ![c] = [k1 EXCEPT !.pc = "dlqInsert"]]
                /\ UNCHANGED <<seqFail, overlapped>>
           ELSE /\ calls' = [calls EXCEPT ![c] = Rethrow(k1)]
                /\ CallEnds(c, TRUE)

\* the insert of addToDeadLetterQueue returns and the error is rethrown
addToDeadLetterQueue_returns(c) ==
    LET k == calls[c]
    IN  /\ k.pc = "dlqInsert"
        /\ IF store = "up"
           THEN /\ dlq' = Append(dlq, DLQRow(k))
                /\ calls' = [calls EXCEPT ![c] =
                     Rethrow([k EXCEPT !.dlqAdded = @ + 1, !.uuids = @ + 1])]
           ELSE /\ dlq' = dlq
                /\ calls' = [calls EXCEPT ![c] =
                     Rethrow([k EXCEPT !.uuids = @ + 1, !.dlqFailed = store])]
        /\ CallEnds(c, TRUE)
        /\ UNCHANGED <<now, circuitBreakers, store, started, dispatchVars, dlqVars>>

\* the caller has taken the result or the error of the call
Return(c) ==
    /\ calls[c].pc = "done"
    /\ calls' = [calls EXCEPT ![c] = IdleCall]
    /\ UNCHANGED <<now, circuitBreakers, dlq, store, started, seqFail, overlapped, dispatchVars, dlqVars>>

\* the instants at which something can happen that could not happen before:
\* a timer fires, an open breaker is at, and then past, its reset timeout
Deadlines ==
    {calls[c].wakeAt : c \in {d \in Slots : calls[d].pc \in {"execWait", "backoff"}}}
    \cup {circuitBreakers[n].lastFailureTime + resetTimeoutMs :
             n \in {m \in DOMAIN circuitBreakers : circuitBreakers[m].state = "OPEN"}}
    \cup {circuitBreakers[n].lastFailureTime + resetTimeoutMs + 1 :
             n \in {m \in DOMAIN circuitBreakers : circuitBreakers[m].state = "OPEN"}}
    \cup {t.fireAt : t \in timers}

\* time passes, up to the next instant at which something can happen
Tick(d) ==
    /\ d > 0
    /\ now + d <= MaxNow
    /\ \A t \in Deadlines : t > now => now + d <= t
    /\ now' = now + d
    /\ UNCHANGED <<calls, circuitBreakers, dlq, store, started, seqFail, overlapped, dispatchVars, dlqVars>>

\* a caller may start a call in slot c with this rule argument: the slots
\* are taken in order, at most maxStarted calls are made, and a call that
\* could add a row is made only while the table has room for the row
MayCall(c, rule, maxStarted) ==
    /\ started < maxStarted
    /\ \A d \in Slots : d < c => calls[d].pc # "idle"
    /\ rule # NoRule =>
         Len(dlq) + Cardinality({d \in Slots : /\ Running(calls[d])
                                               /\ calls[d].rule # NoRule})
           < MaxDLQ

\* the steps of the calls that have started, and the clock
Steps ==
    \/ \E c \in Slots : withRetry_catch(c)
    \/ \E c \in Slots : withRetry_next(c)
    \/ \E c \in Slots : operation_logged(c)
    \/ \E c \in Slots : logError_returns(c)
    \/ \E c \in Slots : Return(c)
    \/ \E t \in Deadlines : Tick(t - now)

(***************************************************************************)
(* Spec: a few calls with any of the inputs, running at the same time      *)
(***************************************************************************)
Next ==
    \/ \E c \in Slots, in \in CallInputs, rule \in SampleRules \cup {NoRule},
          maxRetries \in MaxRetriesOptions :
         /\ MayCall(c, rule, MaxStarted)
         /\ executeActionSafely(c, in[1], in[2], rule, maxRetries)
         /\ UNCHANGED <<dispatchVars, dlqVars>>
    \/ \E c \in Slots : executeAction_timeout(c)
    \/ \E c \in Slots : addToDeadLetterQueue_returns(c)
    \/ Steps

Spec == Init /\ [][Next]_vars

(***************************************************************************)
(* SpecSeq: many calls of one action, each awaited before the next, as     *)
(* the loops of the trigger handler and of processDLQBatch make them       *)
(***************************************************************************)
NextSeq ==
    \/ \E c \in Slots, in \in BreakerInputs, rule \in SampleRules \cup {NoRule},
          maxRetries \in BreakerMaxRetries :
         /\ MayCall(c, rule, MaxSeqCalls)
         /\ \A d \in Slots : calls[d].pc = "idle"
         /\ executeActionSafely(c, in[1], in[2], rule, maxRetries)
         /\ UNCHANGED <<dispatchVars, dlqVars>>
    \/ \E c \in Slots : CircuitBreaker_logged(c)
    \/ \E c \in Slots : addToDeadLetterQueue_returns(c)
    \/ Steps

SpecSeq == Init /\ [][NextSeq]_vars

(***************************************************************************)
(* SpecOverlap: many calls of one action, running at the same time         *)
(***************************************************************************)
NextOverlap ==
    \/ \E c \in Slots, in \in BreakerInputs, maxRetries \in BreakerMaxRetries :
         /\ MayCall(c, NoRule, MaxOverlapCalls)
         /\ executeActionSafely(c, in[1], in[2], NoRule, maxRetries)
         /\ UNCHANGED <<dispatchVars, dlqVars>>
    \/ \E c \in Slots : CircuitBreaker_logged(c)
    \/ Steps

SpecOverlap == Init /\ [][NextOverlap]_vars

(***************************************************************************)
(* SpecStore: one call with any of the inputs, while the durable store     *)
(* works, answers its inserts with an error, or throws                     *)
(***************************************************************************)
\* the durable store starts or stops failing
StoreFault(s) ==
    /\ s # store
    /\ store' = s
    /\ UNCHANGED <<now, calls, circuitBreakers, dlq, started, seqFail, overlapped, dispatchVars, dlqVars>>

NextStore ==
    \/ \E s \in StoreModes : StoreFault(s)
    \/ Next

SpecStore == Init /\ [][NextStore]_vars

(***************************************************************************)
(* The trigger handler (POST /api/rules/trigger)                           *)
(***************************************************************************)
\* String(value) of a value that is a string
String(value) == value \o ""

\* one condition of a rule as shouldExecuteRule evaluates it
ConditionMet(condition, parameters) ==
    LET value == parameters[condition.field]
    IN  CASE condition.operator = "equals" -> value = condition.value
          [] condition.operator = "not_equals" -> value # condition.value
          [] condition.operator = "contains" ->
               Includes(String(value), String(condition.value))
          [] OTHER -> TRUE

\* shouldExecuteRule(rule, parameters)
shouldExecuteRule(rule, parameters) ==
    IF Len(rule.conditions) = 0
    THEN TRUE
    ELSE \A n \in 1..Len(rule.conditions) :
           ConditionMet(rule.conditions[n], parameters)

\* a delay taken as seconds
DelayMsSeconds(rule) == rule.delay * 1000

\* the delay of the setTimeout of a delayed rule: minutes to milliseconds
DelayMs(rule) == rule.delay * 60 * 1000

\* the slot a new call takes: the first one that is idle
FreeSlot(c) ==
    /\ calls[c].pc = "idle"
    /\ \A d \in Slots : d < c => calls[d].pc # "idle"

\* the handler goes on to the next matching rule, evaluates its conditions
\* and starts the insert of the log entry of the match or of the mismatch;
\* past the last rule it answers 200
NextRule(d) ==
    LET n == d.i + 1
    IN  IF n > Len(d.matchingRules)
        THEN [d EXCEPT !.pc = "returned", !.status = 200, !.i = n, !.slot = 0]
        ELSE [d EXCEPT !.pc = IF shouldExecuteRule(d.matchingRules[n],
                                                   d.parameters)
                              THEN "matchLog" ELSE "skipLog",
                       !.i = n,
                       !.slot = 0,
                       !.evaluated = @ \cup {d.matchingRules[n].id}]

\* a loop without the try and catch around the rule: the error of the rule
\* ends the request with status 500
AfterRuleErrorAbort(d) ==
    [d EXCEPT !.pc = "returned", !.status = 500, !.slot = 0]

\* the end of the catch block around the processing of one rule
AfterRuleError(d) == NextRule(d)

\* a request POST /api/rules/trigger {triggerId, parameters} arrives: the
\* validation, the select of the enabled rules of the trigger and the log
\* entry of the trigger event
handler(triggerId, parameters) ==
    /\ dispatch.pc \in {"idle", "returned"}
    /\ dispatches < MaxDispatches
    /\ dispatches' = dispatches + 1
    /\ LET d == [IdleDispatch EXCEPT !.no = dispatches + 1,
                                     !.triggerId = triggerId,
                                     !.parameters = parameters]
       IN  IF triggerId = "" \/ ~getTriggerById(triggerId)
           THEN dispatch' = [d EXCEPT !.pc = "returned", !.status = 400]
           ELSE dispatch' = NextRule([d EXCEPT !.matchingRules =
                                SelectSeq(rules, LAMBDA r :
                                    r.triggerId = triggerId /\ r.enabled)])
    /\ UNCHANGED <<now, calls, circuitBreakers, dlq, store, started, seqFail,
                   overlapped, rules, timers, fired, dlqVars>>

\* the log entry of a rule whose conditions are not met is written: continue
handler_skipLogged ==
    /\ dispatch.pc = "skipLog"
    /\ dispatch' = NextRule(dispatch)
    /\ UNCHANGED <<now, calls, circuitBreakers, dlq, store, started, seqFail,
                   overlapped, rules, timers, fired, dispatches, dlqVars>>

\* the log entry of the match is written: an immediate rule calls
\* executeActionSafely, a delayed rule starts the log entry of its scheduling
handler_matchLogged(c) ==
    LET rule == dispatch.matchingRules[dispatch.i]
    IN  /\ dispatch.pc = "matchLog"
        /\ UNCHANGED <<rules, timers, fired, dispatches, dlqVars>>
        /\ IF rule.schedule = "immediate"
           THEN /\ FreeSlot(c)
                /\ executeActionSafely(c, rule.actionId, rule.actionParams,
                                       rule, DefaultMaxRetries)
                /\ dispatch' = [dispatch EXCEPT !.pc = "awaitAction",
                                                !.slot = c,
                                                !.dispatched = @ \cup {rule.id}]
           ELSE /\ c = 1
                /\ dispatch' = [dispatch EXCEPT !.pc = "scheduleLog"]
                /\ UNCHANGED <<now, calls, circuitBreakers, dlq, store, started,
                               seqFail, overlapped>>

\* the log entry of the scheduling is written: setTimeout, the rule is
\* pushed to executedRules, and the loop goes on
handler_scheduleLogged ==
    LET rule == dispatch.matchingRules[dispatch.i]
    IN  /\ dispatch.pc = "scheduleLog"
        /\ timers' = timers \cup
                       {[no |-> dispatch.no, ruleId |-> rule.id, rule |-> rule,
                         last |-> dispatch.i = Len(dispatch.matchingRules),
                         scheduledAt |-> now, fireAt |-> now + DelayMs(rule)]}
        /\ dispatch' = NextRule([dispatch EXCEPT
                                   !.executedRules = Append(@, rule.id),
                                   !.dispatched = @ \cup {rule.id}])
        /\ UNCHANGED <<now, calls, circuitBreakers, dlq, store, started, seqFail,
                       overlapped, rules, fired, dispatches, dlqVars>>

\* the executeActionSafely of an immediate rule has settled: on a result
\* the rule is pushed to executedRules and the loop goes on, on an error
\* the catch block of the rule starts logError
handler_actionSettled ==
    LET rule == dispatch.matchingRules[dispatch.i]
        c == dispatch.slot
    IN  /\ dispatch.pc = "awaitAction"
        /\ calls[c].pc = "done"
        /\ calls' = [calls EXCEPT ![c] = IdleCall]
        /\ IF calls[c].outcome = "ok"
           THEN dispatch' = NextRule([dispatch EXCEPT
                                       !.executedRules = Append(@, rule.id)])
           ELSE dispatch' = [dispatch EXCEPT !.pc = "ruleError", !.slot = 0,
                                             !.failed = @ \cup {rule.id}]
        /\ UNCHANGED <<now, circuitBreakers, dlq, store, started, seqFail,
                       overlapped, rules, timers, fired, dispatches, dlqVars>>

\* logError in the catch block of the rule has returned
handler_ruleErrorLogged ==
    /\ dispatch.pc = "ruleError"
    /\ dispatch' = AfterRuleError(dispatch)
    /\ UNCHANGED <<now, calls, circuitBreakers, dlq, store, started, seqFail,
                   overlapped, rules, timers, fired, dispatches, dlqVars>>

\* what the rules table holds for a rule id
StoredState(id) ==
    IF \A i \in 1..Len(rules) : rules[i].id # id THEN "deleted"
    ELSE IF \E i \in 1..Len(rules) : rules[i].id = id /\ rules[i].enabled
         THEN "enabled" ELSE "disabled"

\* a callback that takes the enabled flag of its rule from the rules table
CallbackRuleStored(t) ==
    [t.rule EXCEPT !.enabled = StoredState(t.ruleId) = "enabled"]

\* the rule of the setTimeout callback: the variable of the loop of the
\* handler, captured when the timer was set
CallbackRule(t) == t.rule

\* the setTimeout callback of a delayed rule runs: it calls
\* executeActionSafely with the rule the handler had selected
setTimeout_fires(t, c) ==
    /\ t \in timers
    /\ now >= t.fireAt
    /\ FreeSlot(c)
    /\ executeActionSafely(c, CallbackRule(t).actionId,
                           CallbackRule(t).actionParams, CallbackRule(t),
                           DefaultMaxRetries)
    /\ timers' = timers \ {t}
    /\ fired' = Append(fired,
                       [no |-> t.no, ruleId |-> t.ruleId, delay |-> t.rule.delay,
                        scheduledAt |-> t.scheduledAt, at |-> now,
                        last |-> t.last,
                        stored |-> StoredState(t.ruleId),
                        returned |-> ~(/\ dispatch.no = t.no
                                       /\ dispatch.pc # "returned")])
    /\ UNCHANGED <<rules, dispatch, dispatches, dlqVars>>

\* the steps of the calls that have started, and the clock, when the caller
\* takes the outcome itself
CallSteps ==
    \/ \E c \in Slots : withRetry_catch(c)
    \/ \E c \in Slots : withRetry_next(c)
    \/ \E c \in Slots : operation_logged(c)
    \/ \E c \in Slots : logError_returns(c)
    \/ \E c \in Slots : addToDeadLetterQueue_returns(c)
    \/ \E t \in Deadlines : Tick(t - now)

(***************************************************************************)
(* SpecDispatch: requests to the trigger handler, one at a time, and the   *)
(* delayed callbacks they leave behind                                     *)
(***************************************************************************)
NextDispatch ==
    \/ \E in \in TriggerInputs : handler(in[1], in[2])
    \/ handler_skipLogged
    \/ \E c \in Slots : handler_matchLogged(c)
    \/ handler_scheduleLogged
    \/ handler_actionSettled
    \/ handler_ruleErrorLogged
    \/ \E t \in timers, c \in Slots : setTimeout_fires(t, c)
    \/ \E c \in Slots : c # dispatch.slot /\ Return(c)
    \/ CallSteps

SpecDispatch == Init /\ [][NextDispatch]_vars

(***************************************************************************)
(* SpecTimers: requests to the trigger handler, and requests that disable  *)
(* or delete a delayed rule while its timer is pending                     *)
(***************************************************************************)
\* PUT /api/rules/[id] {enabled: false}
rules_disable(id) ==
    /\ \E i \in 1..Len(rules) :
         /\ rules[i].id = id
         /\ rules[i].enabled
         /\ rules' = [rules EXCEPT ![i].enabled = FALSE]
    /\ UNCHANGED <<now, calls, circuitBreakers, dlq, store, started, seqFail,
                   overlapped, dispatch, timers, fired, dispatches, dlqVars>>

\* DELETE /api/rules/[id]
rules_delete(id) ==
    /\ \E i \in 1..Len(rules) : rules[i].id = id
    /\ rules' = SelectSeq(rules, LAMBDA r : r.id # id)
    /\ UNCHANGED <<now, calls, circuitBreakers, dlq, store, started, seqFail,
                   overlapped, dispatch, timers, fired, dispatches, dlqVars>>

\* the bodies of the requests to the trigger handler whose triggers have a
\* delayed rule
TimerTriggerInputs ==
    {in \in TriggerInputs : in[1] \in {"guest_checkin", "guest_checkout"}}

\* the delayed rules of the rules table
DelayedRuleIds ==
    {RulesTable[i].id : i \in {j \in 1..Len(RulesTable) :
                                  RulesTable[j].schedule = "delayed"}}

NextTimers ==
    \/ \E in \in TimerTriggerInputs : handler(in[1], in[2])
    \/ \E c \in Slots : handler_matchLogged(c)
    \/ handler_scheduleLogged
    \/ handler_actionSettled
    \/ handler_ruleErrorLogged
    \/ \E t \in timers, c \in Slots : setTimeout_fires(t, c)
    \/ \E id \in DelayedRuleIds : rules_disable(id)
    \/ \E id \in DelayedRuleIds : rules_delete(id)
    \/ \E c \in Slots : c # dispatch.slot /\ Return(c)
    \/ CallSteps

SpecTimers == Init /\ [][NextTimers]_vars

(***************************************************************************)
(* The dead letter queue processor: processDLQItem, processDLQBatch, the   *)
(* retry endpoint, the test endpoint that adds a row, and the update of a  *)
(* rule                                                                    *)
(***************************************************************************)
\* .order('timestamp', {ascending: true}): a comes no later than b
BeforeDescending(a, b) == a.timestamp >= b.timestamp

Before(a, b) == a.timestamp <= b.timestamp

\* the indices of the rows the query of processDLQBatch matches
Matching(olderThanMinutes, maxRetryAttempts, specificIds) ==
    {i \in 1..Len(dlq) :
        /\ dlq[i].status = "pending"
        /\ dlq[i].retryAttempts < maxRetryAttempts
        /\ olderThanMinutes > 0 =>
             dlq[i].timestamp < now - olderThanMinutes * 60 * 1000
        /\ specificIds # {} => dlq[i].id \in specificIds}

\* the answers the query can give: the first len matching rows in the order
\* of the query; rows of equal timestamp come in either order
Selections(matching, len) ==
    {s \in [1..len -> matching] :
        /\ \A a, b \in 1..len : a < b =>
             /\ s[a] # s[b]
             /\ Before(dlq[s[a]], dlq[s[b]])
        /\ \A j \in matching \ {s[a] : a \in 1..len} :
             \A a \in 1..len : Before(dlq[s[a]], dlq[j])}

Min(a, b) == IF a <= b THEN a ELSE b

\* a slot in which nothing runs
ProcSlot(c) ==
    /\ calls[c].pc = "idle"
    /\ procs[c].pc = "idle"
    /\ \A d \in Slots : d < c => calls[d].pc # "idle" \/ procs[d].pc # "idle"

\* POST /api/test/add-dlq-entry
addDlqEntry(ruleId, actionId, actionParams) ==
    /\ used.entries < MaxEntries
    /\ dlq' = Append(dlq,
                 [id |-> Uuid(0, used.entries + 1),
                  ruleId |-> ruleId,
                  ruleName |-> "Test Rule",
                  triggerId |-> "test_trigger",
                  actionId |-> actionId,
                  actionParams |-> actionParams,
                  context |-> IdleCall.context,
                  error |-> "Test error",
                  timestamp |-> now,
                  retryAttempts |-> 0,
                  status |-> "pending",
                  lastProcessedAt |-> NullTime])
    /\ used' = [used EXCEPT !.entries = @ + 1]
    /\ UNCHANGED <<now, calls, circuitBreakers, store, started, seqFail,
                   overlapped, dispatchVars, procs, batch>>

\* no call and no processDLQItem is under way
Quiet == \A c \in Slots : calls[c].pc = "idle" /\ procs[c].pc = "idle"

\* time passes between two requests
Elapse(d) ==
    /\ used.elapses < MaxElapses
    /\ Quiet
    /\ now + d <= MaxNow
    /\ now' = now + d
    /\ used' = [used EXCEPT !.elapses = @ + 1]
    /\ UNCHANGED <<calls, circuitBreakers, dlq, store, started, seqFail,
                   overlapped, dispatchVars, procs, batch>>

\* PUT /api/rules/[id] with new actionParams
rules_put(id, actionParams) ==
    /\ used.puts < MaxPuts
    /\ \E i \in 1..Len(rules) :
         /\ rules[i].id = id
         /\ rules[i].actionParams # actionParams
         /\ rules' = [rules EXCEPT ![i].actionParams = actionParams]
    /\ used' = [used EXCEPT !.puts = @ + 1]
    /\ UNCHANGED <<now, calls, circuitBreakers, dlq, store, started, seqFail,
                   overlapped, dispatch, timers, fired, dispatches, procs,
                   batch>>

\* processDLQItem(item) is called in slot c: the rule is fetched; without
\* the rule the item is to be marked failed, else the action of the item is
\* executed with one attempt.  owner and M record who called, and with which
\* maxRetryAttempts
RuleNotFoundStatusPending == "pending"

\* the status processDLQItem writes when the rule of the item is not found
RuleNotFoundStatus == "failed"

processDLQItem(c, item, owner, M, procsBase, usedBase) ==
    /\ calls[c].pc = "idle"
    /\ procsBase[c].pc = "idle"
    /\ used' = [usedBase EXCEPT !.procs = @ + 1]
    /\ LET found == {i \in 1..Len(rules) : rules[i].id = item.ruleId}
           p == [IdleProc EXCEPT !.owner = owner, !.item = item, !.M = M]
       IN  IF found = {}
           THEN /\ procs' = [procsBase EXCEPT ![c] =
                     [p EXCEPT !.pc = "updating",
                               !.status = RuleNotFoundStatus,
                               !.success = FALSE,
                               !.retryAttempts = item.retryAttempts + 1]]
                /\ UNCHANGED <<now, calls, circuitBreakers, dlq, store,
                               started, seqFail, overlapped>>
           ELSE /\ executeActionSafely(c, item.actionId, item.actionParams,
                                       rules[CHOOSE i \in found : TRUE],
                                       RetryMaxRetries)
                /\ procs' = [procsBase EXCEPT ![c] =
                                [p EXCEPT !.pc = "awaitAction",
                                          !.rule =
                                             rules[CHOOSE i \in found : TRUE]]]

\* executeActionSafely has returned or thrown: the update of the row is sent
proc_actionSettled(c) ==
    /\ procs[c].pc = "awaitAction"
    /\ calls[c].pc = "done"
    /\ LET item == procs[c].item
           ok == calls[c].outcome = "ok"
       IN  procs' = [procs EXCEPT ![c] =
               [@ EXCEPT !.pc = "updating",
                         !.failedAction = ~ok,
                         !.success = ok,
                         !.retryAttempts = item.retryAttempts + 1,
                         !.status =
                            IF ok THEN "processed"
                            ELSE IF item.retryAttempts + 1 >= ItemMaxRetries
                                 THEN "failed" ELSE "pending"]]
    /\ calls' = [calls EXCEPT ![c] = IdleCall]
    /\ UNCHANGED <<now, circuitBreakers, dlq, store, started, seqFail,
                   overlapped, dispatchVars, batch, used>>

\* the store applies the update to the row with the id of the item
proc_updated(c) ==
    /\ procs[c].pc = "updating"
    /\ dlq' = [i \in DOMAIN dlq |->
                 IF dlq[i].id = procs[c].item.id
                 THEN [dlq[i] EXCEPT !.status = procs[c].status,
                                     !.retryAttempts = procs[c].retryAttempts,
                                     !.lastProcessedAt = now]
                 ELSE dlq[i]]
    /\ procs' = [procs EXCEPT ![c].pc = "updated"]
    /\ UNCHANGED <<now, calls, circuitBreakers, store, started, seqFail,
                   overlapped, dispatchVars, batch, used>>

\* processDLQItem returns; the loop of processDLQBatch goes on to its next
\* item, or the batch returns
proc_returns(c) ==
    /\ procs[c].pc = "updated"
    /\ UNCHANGED dispatchVars
    /\ LET freed == [procs EXCEPT ![c] = IdleProc]
           b == [batch[c] EXCEPT !.processed = Append(@, procs[c].item.id)]
       IN  IF procs[c].owner # "batch"
           THEN /\ procs' = freed
                /\ UNCHANGED <<now, calls, circuitBreakers, dlq, store,
                               started, seqFail, overlapped, batch, used>>
           ELSE IF b.i < Len(b.items)
           THEN /\ processDLQItem(c, b.items[b.i + 1], "batch",
                                  b.maxRetryAttempts, freed, used)
                /\ batch' = [batch EXCEPT ![c] = [b EXCEPT !.i = @ + 1]]
           ELSE /\ procs' = freed
                /\ batch' = [batch EXCEPT ![c] = [b EXCEPT !.pc = "done"]]
                /\ UNCHANGED <<now, calls, circuitBreakers, dlq, store,
                               started, seqFail, overlapped, used>>

\* processDLQBatch(limit, {olderThanMinutes, specificIds, maxRetryAttempts}):
\* the query, and the first processDLQItem of the loop
processDLQBatch(c, limit, olderThanMinutes, maxRetryAttempts, specificIds) ==
    /\ batch[c].pc \in {"idle", "done"}
    /\ used.batches < MaxBatches
    /\ ProcSlot(c)
    /\ UNCHANGED dispatchVars
    /\ LET matching == Matching(olderThanMinutes, maxRetryAttempts, specificIds)
           len == Min(limit, Cardinality(matching))
           u == [used EXCEPT !.batches = @ + 1]
       IN  /\ used.procs + len <= MaxProcs
           /\ \E s \in Selections(matching, len) :
                LET items == [a \in 1..len |-> dlq[s[a]]]
                    b == [IdleBatch EXCEPT
                            !.limit = limit,
                            !.olderThanMinutes = olderThanMinutes,
                            !.maxRetryAttempts = maxRetryAttempts,
                            !.specificIds = specificIds,
                            !.items = items,
                            !.table = dlq,
                            !.at = now]
                IN  IF len = 0
                    THEN /\ batch' = [batch EXCEPT ![c] =
                                        [b EXCEPT !.pc = "done"]]
                         /\ used' = u
                         /\ UNCHANGED <<now, calls, circuitBreakers, dlq,
                                        store, started, seqFail, overlapped,
                                        procs>>
                    ELSE /\ batch' = [batch EXCEPT ![c] =
                                        [b EXCEPT !.pc = "running", !.i = 1]]
                         /\ processDLQItem(c, items[1], "batch",
                                           maxRetryAttempts, procs, u)

\* POST /api/dead-letter-queue/[id]/retry: the row is read, whatever its
\* status, and handed to processDLQItem
retry(c, id) ==
    /\ used.procs < MaxProcs
    /\ ProcSlot(c)
    /\ \E i \in 1..Len(dlq) :
         /\ dlq[i].id = id
         /\ processDLQItem(c, dlq[i], "retry", 0, procs, used)
    /\ UNCHANGED <<dispatchVars, batch>>

(***************************************************************************)
(* SpecDLQ: rows are added to the queue and retried, one request at a      *)
(* time, and then a batch run processes the queue                          *)
(***************************************************************************)
NextDLQ ==
    \/ /\ Quiet /\ used.batches = 0
       /\ \E in \in EntryInputs : addDlqEntry(in[1], in[2], in[3])
    \/ /\ used.batches = 0
       /\ \E d \in ElapseSteps : Elapse(d)
    \/ /\ Quiet /\ used.batches < MaxQueueBatches
       /\ \E c \in Slots, in \in BatchInputs :
            processDLQBatch(c, in[1], in[2], in[3], in[4])
    \/ /\ Quiet /\ used.batches = 0 /\ used.procs < MaxSweepRetries
       /\ \E c \in Slots, i \in 1..Len(dlq) : retry(c, dlq[i].id)
    \/ \E c \in Slots : proc_actionSettled(c)
    \/ \E c \in Slots : proc_updated(c)
    \/ \E c \in Slots : proc_returns(c)
    \/ CallSteps

SpecDLQ == Init /\ [][NextDLQ]_vars

(***************************************************************************)
(* SpecSweeps: a row is added to the queue, and then batch runs sweep it,   *)
(* the worker's and those the API starts, with nothing to keep them apart  *)
(***************************************************************************)
NextSweeps ==
    \/ /\ dlq = <<>>
       /\ \E in \in EntryInputs \cup {FailingEntry} :
            addDlqEntry(in[1], in[2], in[3])
    \/ \E c \in Slots, in \in SweepInputs :
         processDLQBatch(c, in[1], in[2], in[3], in[4])
    \/ \E c \in Slots : proc_actionSettled(c)
    \/ \E c \in Slots : proc_updated(c)
    \/ \E c \in Slots : proc_returns(c)
    \/ CallSteps

SpecSweeps == Init /\ [][NextSweeps]_vars

(***************************************************************************)
(* SpecDrain: a row is added to the queue and batch runs follow one        *)
(* another, each started when the one before has returned; a step is taken *)
(* whenever one can be                                                     *)
(***************************************************************************)
NextDrain ==
    \/ /\ dlq = <<>>
       /\ \E in \in EntryInputs \cup {FailingEntry} :
            addDlqEntry(in[1], in[2], in[3])
    \/ /\ Quiet
       /\ dlq # <<>>
       /\ \E c \in Slots, in \in SweepInputs :
            processDLQBatch(c, in[1], in[2], in[3], in[4])
    \/ \E c \in Slots : proc_actionSettled(c)
    \/ \E c \in Slots : proc_updated(c)
    \/ \E c \in Slots : proc_returns(c)
    \/ CallSteps

SpecDrain == Init /\ [][NextDrain]_vars /\ WF_vars(NextDrain)

(***************************************************************************)
(* SpecRetry: a row is added to the queue, and retry requests for the rows *)
(* of the queue overlap in time                                            *)
(***************************************************************************)
NextRetry ==
    \/ /\ dlq = <<>>
       /\ \E in \in EntryInputs : addDlqEntry(in[1], in[2], in[3])
    \/ \E c \in Slots, i \in 1..Len(dlq) : retry(c, dlq[i].id)
    \/ \E c \in Slots : proc_actionSettled(c)
    \/ \E c \in Slots : proc_updated(c)
    \/ \E c \in Slots : proc_returns(c)
    \/ CallSteps

SpecRetry == Init /\ [][NextRetry]_vars

(***************************************************************************)
(* SpecE2E: a trigger is dispatched, then its rule is updated and the rows *)
(* the dispatch left in the queue are retried, one request at a time       *)
(***************************************************************************)
NextE2E ==
    \/ /\ \A c \in Slots : procs[c].pc = "idle"
       /\ handler("cleaning_completed", [propertyId |-> "p-1"])
    \/ \E c \in Slots : handler_matchLogged(c)
    \/ handler_actionSettled
    \/ handler_ruleErrorLogged
    \/ /\ dispatch.pc = "returned" /\ Quiet
       /\ \E p \in PutInputs : rules_put("r-test", p)
    \/ /\ dispatch.pc = "returned" /\ Quiet
       /\ \E c \in Slots, i \in 1..Len(dlq) : retry(c, dlq[i].id)
    \/ \E c \in Slots : proc_actionSettled(c)
    \/ \E c \in Slots : proc_updated(c)
    \/ \E c \in Slots : proc_returns(c)
    \/ CallSteps

SpecE2E == Init /\ [][NextE2E]_vars

(***************************************************************************)
(* Properties                                                              *)
(***************************************************************************)
\* the rows of the dead_letter_queue table that the call k has inserted
RowsOf(k) ==
    {i \in 1..Len(dlq) : \E n \in 1..k.uuids : dlq[i].id = Uuid(k.callNo, n)}

\* every invocation of the executor by the call k has failed, and with an
\* error the retry predicate lets through
FailedEveryAttempt(k) ==
    /\ k.execCount > 0
    /\ k.succAt = 0
    /\ ~Includes(k.execMsg, "not found")
    /\ ~Includes(k.execMsg, "Invalid parameters")

\* the error of the last invocation is a permanent-failure signal
PermanentSignal(k) ==
    Includes(k.execMsg, "not found") \/ Includes(k.execMsg, "Invalid parameters")

\* the call k has left withRetry with an error
LeftWithError(k) ==
    /\ k.pc \in {"breakerLog", "logError", "dlqInsert", "done"}
    /\ k.outcome # "ok"
    /\ k.execCount > 0

\* C1: a call with a rule, for a known action whose executor failed on every
\* attempt with a retryable error, ends with an error and has inserted exactly
\* one row into the dead letter queue; the row is pending, has retryAttempts 0
\* and carries the id, triggerId, actionId and actionParams of the rule.
C1_ExhaustionAddsOneItem ==
    \A c \in Slots :
      LET k == calls[c]
      IN  (/\ k.pc = "done"
           /\ k.rule # NoRule
           /\ getActionById(k.actionId)
           /\ FailedEveryAttempt(k))
          => /\ k.outcome = "error"
             /\ Cardinality(RowsOf(k)) = 1
             /\ \A i \in RowsOf(k) :
                  /\ dlq[i].status = "pending"
                  /\ dlq[i].retryAttempts = 0
                  /\ dlq[i].ruleId = k.rule.id
                  /\ dlq[i].triggerId = k.rule.triggerId
                  /\ dlq[i].actionId = k.rule.actionId
                  /\ dlq[i].actionParams = k.rule.actionParams

\* a call with a rule has used up its three retries and left its one row
C1_Witness ==
    \E c \in Slots :
      /\ calls[c].pc = "done"
      /\ calls[c].rule # NoRule
      /\ FailedEveryAttempt(calls[c])
      /\ calls[c].execCount = 4
      /\ Cardinality(RowsOf(calls[c])) = 1
      /\ calls[c].actionId # calls[c].rule.actionId

\* C2: a call made without a rule inserts no row into the dead letter queue,
\* whether it fails with its retries used up, with a non-retryable error or
\* by the rejection of an open breaker.
C2_NoRuleNoItem ==
    \A c \in Slots :
      (calls[c].pc # "idle" /\ calls[c].rule = NoRule)
        => /\ RowsOf(calls[c]) = {}
           /\ calls[c].pc # "dlqInsert"

\* a call without a rule was rejected by the open breaker and has ended
C2_Witness ==
    \E c \in Slots :
      /\ calls[c].pc = "done"
      /\ calls[c].rule = NoRule
      /\ calls[c].rejected
      /\ calls[c].outcome = "error"
      /\ Len(dlq) = 0

\* C3: a call for a known action that follows 5 failed calls in a row for the
\* same action, within resetTimeoutMs of the last recorded failure, is
\* rejected with a circuit-open error and never invokes the executor.
C3_SixthCallFailsFast ==
    \A c \in Slots :
      LET k == calls[c]
      IN  (/\ k.pc # "idle"
           /\ getActionById(k.actionId)
           /\ k.priorFails >= 5
           /\ k.withinReset)
          => /\ k.rejected
             /\ k.execCount = 0
             /\ Includes(k.errMsg, "Circuit breaker open for action:" \o k.actionId)

\* the sixth call after five failed ones has been rejected
C3_Witness ==
    \E c \in Slots :
      /\ calls[c].pc = "done"
      /\ calls[c].priorFails = 5
      /\ calls[c].withinReset
      /\ calls[c].rejected
      /\ calls[c].callNo = 6

\* C4: while the call that a breaker lets through as its HalfOpen trial is
\* still in the operation, no other call to the breaker reaches the operation.
C4_SingleTrialCall ==
    \A c \in Slots : ~calls[c].duringTrial

\* C5: a call invokes the executor at most maxRetries + 1 times, never again
\* after an invocation has succeeded, and returns the result of that
\* invocation.
C5_AtMostMaxRetriesPlusOne ==
    \A c \in Slots :
      LET k == calls[c]
      IN  /\ k.execCount <= k.maxRetries + 1
          /\ k.succAt # 0 => k.execCount = k.succAt
          /\ (k.pc = "done" /\ k.succAt # 0)
               => /\ k.outcome = "ok"
                  /\ k.result = k.execResult
                  /\ k.result.success

\* a call has returned the result of an invocation that followed failed ones
C5_Witness ==
    \E c \in Slots :
      /\ calls[c].pc = "done"
      /\ calls[c].outcome = "ok"
      /\ calls[c].succAt = 3
      /\ calls[c].maxRetries = 3

\* C6: a call that leaves withRetry with an error has called onRetry and has
\* waited once for each failed attempt but the last one, the last attempt
\* was attempt maxRetries or failed with an error retryCondition refuses, and
\* the error that leaves is the error of that attempt.
C6_TerminalFailurePropagatesAtOnce ==
    \A c \in Slots :
      LET k == calls[c]
      IN  LeftWithError(k)
          => /\ k.onRetryCount = k.execCount - 1
             /\ Len(k.waits) = k.execCount - 1
             /\ k.execCount = k.maxRetries + 1 \/ PermanentSignal(k)
             /\ k.pc \in {"logError", "dlqInsert"}
                  => k.errMsg = "Action error (" \o k.actionId \o "): " \o k.execMsg

\* a call has failed at its last retry: one onRetry per retry, none after it
C6_Witness ==
    \E c \in Slots :
      /\ calls[c].pc = "logError"
      /\ calls[c].maxRetries = 3
      /\ calls[c].execCount = 4
      /\ calls[c].onRetryCount = 3
      /\ Len(calls[c].waits) = 3

C8_PermanentFailureNotRetried ==
    \A c \in Slots :
      LET k == calls[c]
      IN  (/\ k.pc \notin {"idle", "execFailed", "execWait"}
           /\ k.execCount >= 1
           /\ k.succAt = 0
           /\ PermanentSignal(k)
           /\ k.maxRetries > 0)
          => /\ k.execCount = 1
             /\ k.onRetryCount = 0
             /\ k.waits = <<>>
             /\ k.pc \in {"breakerLog", "logError", "dlqInsert", "done"}
             /\ k.pc = "done" => k.outcome = "error"

\* a call with maxRetries 3 has ended after one invalid-parameters failure
C8_Witness ==
    \E c \in Slots :
      /\ calls[c].pc = "done"
      /\ calls[c].maxRetries = 3
      /\ Includes(calls[c].execMsg, "Invalid parameters")
      /\ calls[c].execCount = 1
      /\ calls[c].outcome = "error"

\* C9: no step of a call that the open breaker has rejected changes the
\* breaker, and such a call invokes the executor zero times, calls onRetry
\* zero times and waits for no backoff.
C9_RejectionIsPure ==
    [][\A c \in Slots :
         (calls'[c].rejected /\ calls'[c] # calls[c])
           => /\ circuitBreakers' = circuitBreakers
              /\ calls'[c].execCount = 0
              /\ calls'[c].onRetryCount = 0
              /\ calls'[c].waits = <<>>
              /\ calls'[c].pc \in {"logError", "dlqInsert", "done"}]_vars

\* a rejected call with a rule has ended, with the breaker still open
C9_Witness ==
    \E c \in Slots :
      /\ calls[c].pc = "done"
      /\ calls[c].rejected
      /\ calls[c].rule # NoRule
      /\ circuitBreakers[BreakerName(calls[c].actionId)].state = "OPEN"
      /\ circuitBreakers[BreakerName(calls[c].actionId)].failures = 5

\* C10: every error a call raises to its caller is an ActionError whose
\* message ends with '(Error ID: <id>)', <id> being what logError returned.
C10_EveryErrorCarriesErrorId ==
    \A c \in Slots :
      LET k == calls[c]
      IN  (k.pc = "done" /\ k.outcome = "error")
          => /\ k.errName = "ActionError"
             /\ k.errorId # ""
             /\ EndsWith(k.errMsg, "(Error ID: " \o k.errorId \o ")")

\* C11: whatever the durable store does while a call is on its
\* terminal-failure path, the call ends by raising the ActionError of the
\* failure of the action, with an error id that logError returned: neither
\* the failed log write nor the failed dead-letter insert reaches the caller.
C11_StoreFailureNeverReachesCaller ==
    \A c \in Slots :
      LET k == calls[c]
          cause == IF k.rejected
                   THEN "Circuit breaker open for " \o BreakerName(k.actionId)
                   ELSE k.execMsg
      IN  /\ (k.pc = "done" /\ k.outcome = "error" /\ getActionById(k.actionId))
               => /\ k.errName = "ActionError"
                  /\ k.errorId # ""
                  /\ k.errMsg = ActionErrorMessage(k.actionId, cause)
                                   \o ErrorIdSuffix(k.errorId)
          /\ k.logFailed = "throw" => Includes(k.errorId, "failed-to-log-")
          /\ k.logFailed = "error" => k.errorId = k.logErrorId

\* a call with a rule has ended with the ActionError of its action although
\* the log write threw and the dead-letter insert failed
C11_Witness ==
    \E c \in Slots :
      /\ calls[c].pc = "done"
      /\ calls[c].outcome = "error"
      /\ calls[c].rule # NoRule
      /\ calls[c].logFailed = "throw"
      /\ calls[c].dlqFailed # ""
      /\ calls[c].errName = "ActionError"
      /\ calls[c].execMsg = "Intentional test failure"
      /\ Len(dlq) = 0

\* a prefix test on strings
StartsWith(str, pre) ==
    /\ Len(str) >= Len(pre)
    /\ SubSeq(str, 1, Len(pre)) = pre

\* what a condition says of the trigger parameters, for each operator of
\* the RuleCondition type
Holds(condition, parameters) ==
    LET value == parameters[condition.field]
    IN  CASE condition.operator = "equals" -> value = condition.value
          [] condition.operator = "not_equals" -> value # condition.value
          [] condition.operator = "greater_than" -> value > condition.value
          [] condition.operator = "less_than" -> value < condition.value
          [] condition.operator = "contains" -> Includes(value, condition.value)
          [] condition.operator = "starts_with" ->
               StartsWith(value, condition.value)
          [] condition.operator = "ends_with" -> EndsWith(value, condition.value)

\* the rule at place n of the request the handler is serving
RuleAt(n) == dispatch.matchingRules[n]

\* C12: a rule is dispatched only if every one of its conditions holds of
\* the trigger parameters, whatever the operators of the conditions, and a
\* rule without conditions is dispatched whenever it is reached.
C12_DispatchedOnlyIfAllConditionsHold ==
    \A n \in 1..Len(dispatch.matchingRules) :
      /\ RuleAt(n).id \in dispatch.dispatched
           => \A m \in 1..Len(RuleAt(n).conditions) :
                Holds(RuleAt(n).conditions[m], dispatch.parameters)
      /\ (dispatch.pc = "returned" /\ RuleAt(n).conditions = <<>>)
           => RuleAt(n).id \in dispatch.dispatched

\* C13: a request whose trigger exists ends with status 200 and has by
\* then evaluated every matching rule and dispatched every one whose
\* conditions are met, whether or not the action of an earlier rule failed.
C13_RuleFailureDoesNotStopDispatch ==
    (dispatch.pc = "returned" /\ getTriggerById(dispatch.triggerId))
      => /\ dispatch.status = 200
         /\ \A n \in 1..Len(dispatch.matchingRules) :
              /\ RuleAt(n).id \in dispatch.evaluated
              /\ shouldExecuteRule(RuleAt(n), dispatch.parameters)
                   <=> RuleAt(n).id \in dispatch.dispatched

\* a request has ended with 200 after the action of one rule failed and a
\* later immediate rule was executed
C13_Witness ==
    /\ dispatch.pc = "returned"
    /\ dispatch.status = 200
    /\ "r-fail" \in dispatch.failed
    /\ \E n \in 1..Len(dispatch.executedRules) : dispatch.executedRules[n] = "r-ok"
    /\ \E i \in 1..Len(dlq) : dlq[i].ruleId = "r-fail"

\* the delayed callbacks, pending or run, of rule id of request no
TimersOf(no, id) == {t \in timers : t.no = no /\ t.ruleId = id}
FiredOf(no, id) == {n \in 1..Len(fired) : fired[n].no = no /\ fired[n].ruleId = id}

\* C14 as stated: the action of a delayed rule is never invoked before the
\* request that scheduled it has returned.
C14_ReturnsBeforeDelayedAction ==
    \A n \in 1..Len(fired) : fired[n].returned

\* C14 amended: the handler does not wait for the action of a delayed rule;
\* the action is invoked no earlier than delay * 60000 ms after its
\* scheduling and once for each request and rule; it is invoked before the
\* request has returned only when the handler was still busy with rules
\* that follow the delayed one.
C14_DelayedActionAfterDelayOnce ==
    /\ \A n \in 1..Len(fired) :
         /\ fired[n].at >= fired[n].scheduledAt + fired[n].delay * 60000
         /\ fired[n].last => fired[n].returned
         /\ Cardinality(FiredOf(fired[n].no, fired[n].ruleId)) = 1
         /\ TimersOf(fired[n].no, fired[n].ruleId) = {}
    /\ \A t \in timers :
         /\ Cardinality(TimersOf(t.no, t.ruleId)) = 1
         /\ t.fireAt = t.scheduledAt + t.rule.delay * 60000
    /\ \A n \in 1..Len(dispatch.matchingRules) :
         (/\ RuleAt(n).schedule = "delayed"
          /\ RuleAt(n).id \in dispatch.dispatched)
           => Cardinality(TimersOf(dispatch.no, RuleAt(n).id))
                + Cardinality(FiredOf(dispatch.no, RuleAt(n).id)) = 1

\* the action of a rule delayed by one minute was invoked a minute after a
\* request that had returned long before
C14_Witness ==
    \E n \in 1..Len(fired) :
      /\ fired[n].ruleId = "r-delayed-1"
      /\ fired[n].returned
      /\ fired[n].scheduledAt = 0
      /\ fired[n].at >= 60000
      /\ \E c \in Slots : calls[c].rule.id = "r-delayed-1" /\ calls[c].execCount = 1

(***************************************************************************)
(* The dead letter queue processor                                         *)
(***************************************************************************)
\* the row is one of those the batch b is to choose from: Pending, fewer
\* than maxRetryAttempts retries, older than the cutoff, in the id set
Eligible(row, b) ==
    /\ row.status = "pending"
    /\ row.retryAttempts < b.maxRetryAttempts
    /\ b.olderThanMinutes > 0 =>
         row.timestamp + b.olderThanMinutes * 60000 < b.at
    /\ b.specificIds # {} => row.id \in b.specificIds

EligibleRows(b) ==
    {b.table[i] : i \in {j \in 1..Len(b.table) : Eligible(b.table[j], b)}}

ItemIds(b) == [a \in 1..Len(b.items) |-> b.items[a].id]

RowOf(id) == dlq[CHOOSE i \in 1..Len(dlq) : dlq[i].id = id]

\* C16: when the retry of an item fails in a batch run with maxRetryAttempts
\* = M, the item is Failed if its incremented retryAttempts >= M, else Pending
C16_FailedRetryStatusFollowsBatchOption ==
    \A c \in Slots :
        (/\ procs[c].owner = "batch"
         /\ procs[c].pc = "updated"
         /\ procs[c].failedAction) =>
            RowOf(procs[c].item.id).status =
                IF procs[c].item.retryAttempts + 1 >= procs[c].M
                THEN "failed" ELSE "pending"

\* C17: processDLQItem executes the actionId and the actionParams of the
\* rule as it fetched it, not those captured in the item
C17_RetryUsesStoredRule ==
    \A c \in Slots :
        procs[c].pc = "awaitAction" =>
            /\ calls[c].actionId = procs[c].rule.actionId
            /\ calls[c].parameters = procs[c].rule.actionParams

\* the rows of the queue for the rule of the end-to-end scenario
RowsOfRule(id) == {i \in 1..Len(dlq) : dlq[i].ruleId = id}

\* C18: after one dispatch of the trigger of the failing rule there is
\* exactly one Pending row for the rule; a retry of that row made after the
\* rule's parameters were changed to succeed leaves the row Processed
C18_EndToEnd ==
    /\ (/\ dispatches = 1
        /\ dispatch.pc = "returned"
        /\ dispatch.matchingRules[1].actionParams = P_testFail
        /\ used.procs = 0) =>
         /\ Cardinality(RowsOfRule("r-test")) = 1
         /\ \A i \in RowsOfRule("r-test") : dlq[i].status = "pending"
    /\ \A c \in Slots :
         (/\ procs[c].pc = "updated"
          /\ procs[c].item.id = dlq[1].id
          /\ procs[c].item.retryAttempts = 0
          /\ procs[c].rule.actionParams = P_succeed) =>
             RowOf(procs[c].item.id).status = "processed"

\* C19: a row that is Processed or Failed keeps its status
C19_TerminalStatusIsFinal ==
    [][\A i \in 1..Len(dlq) :
          dlq[i].status \in {"processed", "failed"} =>
              dlq'[i].status = dlq[i].status]_vars

\* C20: the retryAttempts of a row never decreases
C20_RetryAttemptsNeverDecreases ==
    [][\A i \in 1..Len(dlq) :
          dlq'[i].retryAttempts >= dlq[i].retryAttempts]_vars

\* C21: at most one batch run is under way at any time, and no row is being
\* processed by two invocations of processDLQItem at once
C21_OneSweepAtATime ==
    \A c, d \in Slots : c # d =>
        /\ ~(batch[c].pc = "running" /\ batch[d].pc = "running")
        /\ (procs[c].pc # "idle" /\ procs[d].pc # "idle") =>
             procs[c].item.id # procs[d].item.id

(***************************************************************************)
(* The circuit breaker when HalfOpen, and its count of failures            *)
(***************************************************************************)
\* the call in slot c leaves the operation of CircuitBreaker.execute in
\* this step
LeavesOperation(c) == InOperation(calls[c]) /\ ~InOperation(calls'[c])

\* C22: a HalfOpen trial call that succeeds leaves the breaker Closed with
\* no failures counted; one that fails leaves it Open with lastFailureTime
\* the time of the failure; and a trial call is let through only when more
\* than resetTimeoutMs have passed since lastFailureTime
C22_TrialCallSettlesBreaker ==
    [][\A c \in Slots :
         /\ (calls[c].trial /\ LeavesOperation(c)) =>
              LET cb == circuitBreakers'[BreakerName(calls[c].actionId)]
              IN  IF calls'[c].outcome = "ok"
                  THEN cb.state = "CLOSED" /\ cb.failures = 0
                  ELSE cb.state = "OPEN" /\ cb.lastFailureTime = now
         /\ calls'[c].trial => ~calls'[c].withinReset]_vars

(***************************************************************************)
(* processDLQItem when the rule of the item is not in the rules table      *)
(***************************************************************************)
\* no rule of the rules table has the ruleId of the item
RuleMissing(item) == \A i \in 1..Len(rules) : rules[i].id # item.ruleId

\* C23: when the rule of a queue item does not exist, processDLQItem makes
\* no call of executeActionSafely, writes status Failed to the row and
\* returns success: false
C23_MissingRuleFailsItem ==
    \A c \in Slots :
        (procs[c].pc # "idle" /\ RuleMissing(procs[c].item)) =>
            /\ calls[c].pc = "idle"
            /\ procs[c].pc \in {"updating", "updated"}
            /\ ~procs[c].failedAction
            /\ ~procs[c].success
            /\ procs[c].status = "failed"
            /\ procs[c].pc = "updated" =>
                  RowOf(procs[c].item.id).status = "failed"

\* processDLQItem has written the row of an item whose rule does not exist
C23_Witness ==
    \E c \in Slots :
        /\ procs[c].pc = "updated"
        /\ RuleMissing(procs[c].item)
        /\ RowOf(procs[c].item.id).status = "failed"
        /\ RowOf(procs[c].item.id).retryAttempts > 0

(***************************************************************************)
(* Delayed actions and later changes of their rule                         *)
(***************************************************************************)
\* the row of the rules table a dispatch selects for a rule id: rules are
\* selected while enabled, and SpecTimers changes a rule only by disabling
\* or deleting it
RuleAsFetched(id) ==
    RulesTable[CHOOSE i \in 1..Len(RulesTable) : RulesTable[i].id = id]

\* C24: a pending timer of a delayed rule goes away only by firing, whatever
\* happens to the rule in the rules table; when it fires, executeActionSafely
\* is called with the action, the parameters and the rule as the dispatch had
\* fetched them
C24_DelayedActionRunsWithFetchedRule ==
    [][\A t \in timers :
         t \in timers' \/
           /\ Len(fired') = Len(fired) + 1
           /\ fired'[Len(fired')].no = t.no
           /\ fired'[Len(fired')].ruleId = t.ruleId
           /\ \E c \in Slots :
                /\ calls[c].pc = "idle"
                /\ calls'[c].pc # "idle"
                /\ calls'[c].rule = RuleAsFetched(t.ruleId)
                /\ calls'[c].rule.enabled
                /\ calls'[c].actionId = RuleAsFetched(t.ruleId).actionId
                /\ calls'[c].parameters = RuleAsFetched(t.ruleId).actionParams
                /\ calls'[c].execCount > 0]_vars

\* the timers of a deleted rule and of a disabled rule have both fired
C24_Witness ==
    /\ \E n \in 1..Len(fired) : fired[n].stored = "deleted"
    /\ \E n \in 1..Len(fired) : fired[n].stored = "disabled"

(***************************************************************************)
(* The rows of the dead letter queue under retries                         *)
(***************************************************************************)
\* C25: processDLQItem never changes the number of rows of the queue: where
\* the only requests are those of the test endpoint that adds a row and
\* retries of rows, the number of rows changes only in the step of the test
\* endpoint
C25_RetryAddsNoRow ==
    [][Len(dlq') # Len(dlq) => used'.entries = used.entries + 1]_vars

\* every row is Processed or Failed, and the query of a batch run with the
\* options of the worker matches no row
Drained ==
    /\ \A i \in 1..Len(dlq) : dlq[i].status \in {"processed", "failed"}
    /\ Matching(0, ItemMaxRetries, {}) = {}

AlwaysFailingRowLeavesPending ==
    (dlq # <<>> /\ dlq[1].actionParams = P_fail) =>
        \E i \in 1..Len(dlq) : /\ dlq[i].status = "pending"
                                /\ dlq[i].retryAttempts < ItemMaxRetries

(***************************************************************************)
(* The state of a breaker and its count of failures                        *)
(***************************************************************************)
\* C27: whatever the interleaving of overlapping calls, a breaker is Closed
\* exactly when its count of failures is below the threshold
C27_ClosedIffBelowThreshold ==
    \A name \in DOMAIN circuitBreakers :
        circuitBreakers[name].state = "CLOSED"
            <=> circuitBreakers[name].failures < threshold

\* calls have overlapped, and a breaker that had opened and was reset has
\* counted a failure again
C27_Witness ==
    /\ overlapped # {}
    /\ \E name \in DOMAIN circuitBreakers :
         /\ circuitBreakers[name].state = "CLOSED"
         /\ circuitBreakers[name].failures > 0
         /\ circuitBreakers[name].lastFailureTime > resetTimeoutMs

\* C28: a call that succeeds while its breaker is Closed leaves the breaker as
\* it is; the count of failures goes down only to 0 and only when a call
\* succeeds while the breaker is HalfOpen; every call that fails in the
\* operation adds 1 to the count, and the breaker is Open as soon as the count
\* has reached the threshold
C28_OnlyHalfOpenSuccessResets ==
    [][/\ \A c \in Slots :
            LeavesOperation(c) =>
              LET name == BreakerName(calls[c].actionId)
                  cb == circuitBreakers[name]
                  after == circuitBreakers'[name]
              IN  IF calls'[c].outcome = "ok"
                  THEN cb.state = "CLOSED" => after = cb
                  ELSE /\ after.failures = cb.failures + 1
                       /\ after.failures >= threshold => after.state = "OPEN"
       /\ \A name \in DOMAIN circuitBreakers :
            circuitBreakers'[name].failures < circuitBreakers[name].failures =>
              /\ circuitBreakers[name].state = "HALF_OPEN"
              /\ circuitBreakers'[name].failures = 0
              /\ \E c \in Slots : /\ LeavesOperation(c)
                                   /\ calls'[c].outcome = "ok"
                                   /\ BreakerName(calls[c].actionId) = name]_vars

\* the breaker of test_failure has opened for the first time with the
\* threshold of failures counted, the last call before the opening one of
\* which was a success
C28_Witness ==
    /\ now <= resetTimeoutMs
    /\ \A c \in Slots : calls[c].pc \in {"idle", "done"}
    /\ BreakerName("test_failure") \in DOMAIN circuitBreakers
    /\ circuitBreakers[BreakerName("test_failure")].state = "OPEN"
    /\ circuitBreakers[BreakerName("test_failure")].failures = threshold
    /\ seqFail["test_failure"] = 1

(***************************************************************************)
(* The executor while the breaker is Open, and after a success             *)
(***************************************************************************)
\* the breaker of the action rejects calls: it is Open and resetTimeoutMs
\* have not passed since its last failure
Rejecting(actionId) ==
    LET name == BreakerName(actionId)
    IN  /\ name \in DOMAIN circuitBreakers
        /\ circuitBreakers[name].state = "OPEN"
        /\ now - circuitBreakers[name].lastFailureTime <= resetTimeoutMs

\* C29: no invocation of the executor of an action begins while the breaker
\* of the action is Open and resetTimeoutMs have not passed, be it the first
\* attempt of a call or a retry of a call admitted before the breaker opened
C29_NoInvocationWhileOpen ==
    [][\A c \in Slots :
         calls'[c].execCount > calls[c].execCount =>
             ~Rejecting(calls'[c].actionId)]_vars

\* C30: within one call of executeActionSafely, once the executor has
\* returned a success it is not invoked again, and the call returns the
\* result of that success, whatever becomes of the insert of the success log
\* entry
C30_SuccessIsFinal ==
    \A c \in Slots :
        calls[c].succAt # 0 =>
            /\ calls[c].execCount = calls[c].succAt
            /\ calls[c].pc = "done" =>
                  /\ calls[c].outcome = "ok"
                  /\ calls[c].result = calls[c].execResult

==============================================================================
